---- MODULE Spec2Model ----
(***************************************************************************)
(* Model of magritte/tools.py: the radiative-transfer helper formulas      *)
(* (LTEpop, lineEmissivity, lineOpacity, lineSource) and the image export  *)
(* routine save_fits.                                                      *)
(*                                                                         *)
(* Numbers.  The source computes in 64-bit floats; the model computes in   *)
(* exact rational arithmetic on small integers.  A number-valued header    *)
(* field is a record [k, w, n, d]: kind "num" stands for w + n/d, kind     *)
(* "nan" for numpy's NaN and kind "none" for Python's None.                *)
(***************************************************************************)
EXTENDS Integers, Sequences, FiniteSets, TLC

VARIABLES
    model,      \* the model object handed to save_fits: images, frequencies
    args,       \* args[p]: the arguments of call p of save_fits
    fs,         \* the file system: image directory and the two target paths
    fs0,        \* the file system as it was before any call (history)
    pc,         \* pc[p]: where call p of save_fits stands
    loc,        \* loc[p]: the local variables of call p
    printed,    \* printed[p]: what call p has printed, in order
    wlog,       \* the calls that executed fits.writeto, in order (history)
    lq          \* the radiative-quantity calls: inputs and results

vars == <<model, args, fs, fs0, pc, loc, printed, wlog, lq>>

----------------------------------------------------------------------------
(* Bounds of the model *)

MaxImages == 1      \* images in the model
MaxPix    == 2      \* pixels along an axis of the output grid
MaxLev    == 2      \* energy levels of a LineData handed to LTEpop
MaxRad    == 2      \* radiative transitions of a LineData

Procs == {1, 2}

----------------------------------------------------------------------------
(* Numbers *)

Num(w, n, d) == [k |-> "num", w |-> w, n |-> n, d |-> d]
NaN          == [k |-> "nan", w |-> 0, n |-> 0, d |-> 1]
None         == [k |-> "none", w |-> 0, n |-> 0, d |-> 1]

Abs(x) == IF x < 0 THEN -x ELSE x

RECURSIVE SumSeq(_)
SumSeq(s) == IF Len(s) = 0 THEN 0 ELSE s[1] + SumSeq(Tail(s))

SeqMin(s) == CHOOSE v \in {s[i] : i \in 1..Len(s)} : \A i \in 1..Len(s) : v <= s[i]
SeqMax(s) == CHOOSE v \in {s[i] : i \in 1..Len(s)} : \A i \in 1..Len(s) : v >= s[i]

\* np.diff
Diff(s) == [i \in 1..(Len(s) - 1) |-> s[i + 1] - s[i]]

\* np.mean of a sequence of integers, as the mixed number w + n/d with
\* 0 <= n < d = Len(s); NaN for the empty sequence.  The quotients are summed
\* element by element so that no intermediate sum leaves the integer range.
MeanInt(s) ==
    IF Len(s) = 0 THEN NaN
    ELSE LET q == SumSeq([i \in 1..Len(s) |-> s[i] \div Len(s)])
             r == SumSeq([i \in 1..Len(s) |-> s[i] % Len(s)])
         IN  Num(q + (r \div Len(s)), r % Len(s), Len(s))

\* np.mean of a sequence of rationals nums[i]/den with a common denominator.
MeanRat(nums, den) ==
    IF Len(nums) = 0 THEN NaN
    ELSE Num(0, SumSeq(nums), den * Len(nums))

----------------------------------------------------------------------------
(* The file system *)

UserPath    == "out.fits"
DefaultPath == "images/image.fits"
Paths       == {UserPath, DefaultPath}

IM_UNIT == "W m^-2 Hz^-1 ster^-1"

NoHdr == [NAXIS |-> 0, NAXIS1 |-> 0, NAXIS2 |-> 0, NAXIS3 |-> 0,
          CENTFREQ |-> None, DPIX_X |-> None, DPIX_Y |-> None,
          DFREQ |-> None, IM_UNIT |-> ""]

NoFile  == [kind |-> "none", data |-> <<>>, header |-> NoHdr]
OldFile == [kind |-> "old",  data |-> <<>>, header |-> NoHdr]

----------------------------------------------------------------------------
(* The model object: images and frequencies.                                *)
(* Every image holds two scattered samples at distinct positions; sample m  *)
(* of image k has intensity 100*k + 10*m + f in frequency bin f, so that    *)
(* the image, the sample and the bin a cube entry was taken from can be     *)
(* read off its value.                                                      *)

Positions == {<<-1, 0>>, <<0, 1>>, <<1, 0>>}

\* two distinct positions, the first before the second in reading order
PointPairs ==
    {pq \in Positions \X Positions :
        10 * pq[1][1] + pq[1][2] < 10 * pq[2][1] + pq[2][2]}

NFreqs    == {1, 2, 3}
DFreqVals == {-2, -1, 1, 1000000000, 1000000001}

\* frequency arrays nu: the first bin at 4, consecutive differences from DFreqVals
RECURSIVE Cumul(_, _)
Cumul(first, d) ==
    IF Len(d) = 0 THEN <<first>> ELSE <<first>> \o Cumul(first + d[1], Tail(d))

FreqArrays ==
    {Cumul(4, d) : d \in UNION {[1..(F - 1) -> DFreqVals] : F \in NFreqs}}

Image(k, pq, F) ==
    [ImX |-> <<pq[1][1], pq[2][1]>>,
     ImY |-> <<pq[1][2], pq[2][2]>>,
     I   |-> [m \in 1..2 |-> [f \in 1..F |-> 100 * k + 10 * m + f]]]

Model(n, pq, nu) ==
    [images |-> [k \in 1..n |-> Image(k, pq, Len(nu))],
     nu     |-> nu,
     nfreqs |-> Len(nu)]

Models == {Model(n, pq, nu) : n \in 0..MaxImages, pq \in PointPairs, nu \in FreqArrays}

----------------------------------------------------------------------------
(* The arguments of save_fits.  filename = "" stands for filename = None;   *)
(* the method is 'nearest', the default.                                    *)

ImageNrs == {-1, 1}
Zooms    == {1, 2}

ArgSets ==
    [filename : {"", UserPath},
     image_nr : ImageNrs,
     zoom     : Zooms,
     npix_x   : 1..MaxPix,
     npix_y   : 1..MaxPix]

NoCall == [filename |-> "", image_nr |-> 0, zoom |-> 0, npix_x |-> 0, npix_y |-> 0]

----------------------------------------------------------------------------
(* relative_error and the frequency spacing, lines 42-46 and 186-197 *)

RelTolInv == 1000000000     \* 1 / 1.0e-9

Inf == [k |-> "inf", w |-> 0, n |-> 0, d |-> 1]

\* 2.0*(a-b)/(a+b) in numpy floats: a zero divisor gives inf or NaN, no exception
relative_error(a, b) ==
    IF a + b # 0 THEN Num(0, 2 * (a - b), a + b)
    ELSE IF a - b # 0 THEN Inf ELSE NaN

\* ExceedsTol with the tolerance dropped: any difference counts
ExceedsTolExact(v) ==
    CASE v.k = "inf" -> TRUE
      [] v.k = "nan" -> FALSE
      [] OTHER       -> v.n # 0

\* np.abs(v) > 1.0e-9; a comparison with NaN is False
ExceedsTol(v) ==
    CASE v.k = "inf" -> TRUE
      [] v.k = "nan" -> FALSE
      [] OTHER       -> Abs(v.n) > Abs(v.d) \div RelTolInv

\* lines 191-197: dfreq, for a frequency array of at least two bins
Irregular(freqs) ==
    ExceedsTol(relative_error(SeqMax(Diff(freqs)), SeqMin(Diff(freqs))))

Dfreq(freqs) == IF Irregular(freqs) THEN None ELSE MeanInt(Diff(freqs))

----------------------------------------------------------------------------
(* The image grid, lines 177-190 *)

\* lines 178-179: the bounds min/zoom and max/zoom, as numerators over zoom
BoxLo(coords, zoom) == [n |-> SeqMin(coords), d |-> zoom]
BoxHi(coords, zoom) == [n |-> SeqMax(coords), d |-> zoom]

\* np.linspace(lo, hi, num) for lo.d = hi.d: the numerators over LinDen
LinNum(lo, hi, num) ==
    [i \in 1..num |-> IF num = 1 THEN lo.n
                      ELSE lo.n * (num - 1) + (i - 1) * (hi.n - lo.n)]
LinDen(lo, num) == IF num = 1 THEN lo.d ELSE lo.d * (num - 1)

\* lines 189-190: np.mean(np.diff(xs))
Dpix(lo, hi, num) == MeanRat(Diff(LinNum(lo, hi, num)), LinDen(lo, num))

----------------------------------------------------------------------------
(* Nearest-neighbour interpolation, lines 199-203 *)

\* squared distance from grid point (gx/dx, gy/dy) to sample (px, py),
\* as a numerator over (dx*dy)^2
Dist2(gx, dx, gy, dy, px, py) ==
    (gx - px * dx) * (gx - px * dx) * dy * dy
      + (gy - py * dy) * (gy - py * dy) * dx * dx

\* the sequences that take their i-th entry from the i-th set of S
RECURSIVE ChoiceSeqs(_)
ChoiceSeqs(S) ==
    IF Len(S) = 0 THEN {<<>>}
    ELSE {<<h>> \o t : h \in S[1], t \in ChoiceSeqs(Tail(S))}

Nearest(img, gx, dx, gy, dy) ==
    {m \in 1..Len(img.ImX) :
        \A o \in 1..Len(img.ImX) :
            Dist2(gx, dx, gy, dy, img.ImX[m], img.ImY[m])
              <= Dist2(gx, dx, gy, dy, img.ImX[o], img.ImY[o])}

\* griddata((imx, imy), values, (xs[None,:], ys[:,None]), method='nearest'):
\* xs[None,:] and ys[:,None] broadcast to shape (npix_y, npix_x), entry [a][b]
\* being the point (xs[b], ys[a]).  The sample found for each point is some
\* nearest one: nn[a][b].  The same search serves every frequency bin.
NearestMaps(img, xs, dx, ys, dy) ==
    ChoiceSeqs([a \in 1..Len(ys) |->
        ChoiceSeqs([b \in 1..Len(xs) |-> Nearest(img, xs[b], dx, ys[a], dy)])])

Griddata(img, f, nn) ==
    [a \in 1..Len(nn) |-> [b \in 1..Len(nn[a]) |-> img.I[nn[a][b]][f]]]

\* zs[f] = <array of shape (npix_y, npix_x)> into zs of shape
\* (nfreqs, npix_x, npix_y): numpy accepts it when the shapes agree
ShapesAgree(npix_x, npix_y) == npix_x = npix_y

Cube(img, nfreqs, nn) == [f \in 1..nfreqs |-> Griddata(img, f, nn)]

----------------------------------------------------------------------------
(* save_fits, lines 169-213: from the extraction of the image to the header *)

Unset == [k |-> "unset", w |-> 0, n |-> 0, d |-> 1]

\* model.images[image_nr]: the position (from 1) of the image, 0 for an
\* index out of range (IndexError)
ImageIndex(n, image_nr) ==
    IF image_nr >= 0
    THEN IF image_nr < n THEN image_nr + 1 ELSE 0
    ELSE IF -image_nr <= n THEN n + image_nr + 1 ELSE 0

Header(nfreqs, npix_x, npix_y, f_ij, dpix_x, dpix_y, dfreq) ==
    [NAXIS |-> 3, NAXIS1 |-> nfreqs, NAXIS2 |-> npix_x, NAXIS3 |-> npix_y,
     CENTFREQ |-> f_ij, DPIX_X |-> dpix_x, DPIX_Y |-> dpix_y,
     DFREQ |-> dfreq, IM_UNIT |-> IM_UNIT]

\* the grid of call arguments a over image img
Xs(img, a)  == LinNum(BoxLo(img.ImX, a.zoom), BoxHi(img.ImX, a.zoom), a.npix_x)
XsD(img, a) == LinDen(BoxLo(img.ImX, a.zoom), a.npix_x)
Ys(img, a)  == LinNum(BoxLo(img.ImY, a.zoom), BoxHi(img.ImY, a.zoom), a.npix_y)
YsD(img, a) == LinDen(BoxLo(img.ImY, a.zoom), a.npix_y)

\* What lines 174-213 leave behind for image img, given the nearest-sample
\* map nn: the stage that raised ("" for none), the grid, dfreq, the cube and
\* the header.
\*   spacing : np.max of the empty np.diff(freqs) raises ValueError
\*   interp  : zs[f] = ... raises ValueError when the shapes disagree
\*   header  : hdr['DPIX_X'] = nan raises ValueError (a FITS header holds no NaN)
Body(img, mdl, a, nn) ==
    LET dpix_x == Dpix(BoxLo(img.ImX, a.zoom), BoxHi(img.ImX, a.zoom), a.npix_x)
        dpix_y == Dpix(BoxLo(img.ImY, a.zoom), BoxHi(img.ImY, a.zoom), a.npix_y)
        f_ij   == MeanInt(mdl.nu)
        grid   == [xs |-> Xs(img, a), xd |-> XsD(img, a),
                   ys |-> Ys(img, a), yd |-> YsD(img, a)]
        Raised(stage, dfreq) ==
            [raisedAt |-> stage, exc |-> "ValueError", grid |-> grid,
             dfreq |-> dfreq, zs |-> <<>>, hdr |-> NoHdr]
    IN  IF Len(Diff(mdl.nu)) = 0
        THEN Raised("spacing", Unset)
        ELSE IF ~ShapesAgree(a.npix_x, a.npix_y)
        THEN Raised("interp", Dfreq(mdl.nu))
        ELSE IF dpix_x.k = "nan" \/ dpix_y.k = "nan"
        THEN Raised("header", Dfreq(mdl.nu))
        ELSE [raisedAt |-> "", exc |-> "", grid |-> grid,
              dfreq |-> Dfreq(mdl.nu),
              zs  |-> Cube(img, mdl.nfreqs, nn),
              hdr |-> Header(mdl.nfreqs, a.npix_x, a.npix_y, f_ij,
                             dpix_x, dpix_y, Dfreq(mdl.nu))]

WARNING == "WARNING: No regularly spaced frequency bins!"

\* line 194: the warning is printed when the spacing check is reached and fails
Warns(mdl) == Len(Diff(mdl.nu)) > 0 /\ Irregular(mdl.nu)

----------------------------------------------------------------------------
(* save_fits as a process: one step per file-system operation *)

NoGrid == [xs |-> <<>>, xd |-> 1, ys |-> <<>>, yd |-> 1]

NoLoc == [filename |-> "", raisedAt |-> "", exc |-> "", grid |-> NoGrid,
          dfreq |-> Unset, zs |-> <<>>, hdr |-> NoHdr]

Exists(path) == fs.files[path].kind # "none"

\* Start with the guard on the images moved behind the choice of the file name
StartGuardLate(p) ==
    /\ pc[p] = "start"
    /\ IF args[p].filename = ""
       THEN /\ fs' = [fs EXCEPT !.dir = TRUE]
            /\ loc' = [loc EXCEPT ![p].filename = DefaultPath]
       ELSE /\ loc' = [loc EXCEPT ![p].filename = args[p].filename]
            /\ UNCHANGED fs
    /\ IF Len(model.images) < 1
       THEN /\ printed' = [printed EXCEPT ![p] = Append(@, "No images in model.")]
            /\ pc' = [pc EXCEPT ![p] = "returned"]
       ELSE /\ pc' = [pc EXCEPT ![p] = "isfile"]
            /\ UNCHANGED printed
    /\ UNCHANGED <<model, args, fs0, wlog, lq>>

\* lines 149-163: the guard on the images and the choice of the file name
Start(p) ==
    /\ pc[p] = "start"
    /\ IF Len(model.images) < 1
       THEN /\ printed' = [printed EXCEPT ![p] = Append(@, "No images in model.")]
            /\ pc' = [pc EXCEPT ![p] = "returned"]
            /\ UNCHANGED <<fs, loc>>
       ELSE IF args[p].filename = ""
       THEN /\ fs' = [fs EXCEPT !.dir = TRUE]
            /\ printed' = IF fs.dir THEN printed
                          ELSE [printed EXCEPT ![p] = Append(@, "Created image directory:")]
            /\ loc' = [loc EXCEPT ![p].filename = DefaultPath]
            /\ pc' = [pc EXCEPT ![p] = "isfile"]
       ELSE /\ loc' = [loc EXCEPT ![p].filename = args[p].filename]
            /\ pc' = [pc EXCEPT ![p] = "isfile"]
            /\ UNCHANGED <<fs, printed>>
    /\ UNCHANGED <<model, args, fs0, wlog, lq>>

\* IsFile with the removal of the file left out
IsFileNoRemove(p) ==
    /\ pc[p] = "isfile"
    /\ pc' = [pc EXCEPT ![p] = "extract"]
    /\ UNCHANGED <<model, args, fs, fs0, loc, printed, wlog, lq>>

\* line 166: os.path.isfile(filename)
IsFile(p) ==
    /\ pc[p] = "isfile"
    /\ pc' = [pc EXCEPT ![p] = IF Exists(loc[p].filename) THEN "remove" ELSE "extract"]
    /\ UNCHANGED <<model, args, fs, fs0, loc, printed, wlog, lq>>

\* Remove leaving the file in place
RemoveKeeps(p) ==
    /\ pc[p] = "remove"
    /\ pc' = [pc EXCEPT ![p] = "extract"]
    /\ UNCHANGED <<model, args, fs, fs0, loc, printed, wlog, lq>>

\* line 167: os.remove(filename); FileNotFoundError when the file is gone
Remove(p) ==
    /\ pc[p] = "remove"
    /\ IF Exists(loc[p].filename)
       THEN /\ fs' = [fs EXCEPT !.files[loc[p].filename] = NoFile]
            /\ pc' = [pc EXCEPT ![p] = "extract"]
            /\ UNCHANGED loc
       ELSE /\ loc' = [loc EXCEPT ![p].raisedAt = "remove",
                                  ![p].exc = "FileNotFoundError"]
            /\ pc' = [pc EXCEPT ![p] = "raised"]
            /\ UNCHANGED fs
    /\ UNCHANGED <<model, args, fs0, printed, wlog, lq>>

\* lines 169-213
Compute(p) ==
    /\ pc[p] = "extract"
    /\ LET idx == ImageIndex(Len(model.images), args[p].image_nr)
       IN  IF idx = 0
           THEN /\ loc' = [loc EXCEPT ![p].raisedAt = "extract",
                                      ![p].exc = "IndexError"]
                /\ pc' = [pc EXCEPT ![p] = "raised"]
                /\ UNCHANGED printed
           ELSE \E nn \in NearestMaps(model.images[idx],
                                      Xs(model.images[idx], args[p]),
                                      XsD(model.images[idx], args[p]),
                                      Ys(model.images[idx], args[p]),
                                      YsD(model.images[idx], args[p])) :
                  LET r == Body(model.images[idx], model, args[p], nn)
                  IN  /\ loc' = [loc EXCEPT ![p].raisedAt = r.raisedAt,
                                            ![p].exc = r.exc,
                                            ![p].grid = r.grid,
                                            ![p].dfreq = r.dfreq,
                                            ![p].zs = r.zs,
                                            ![p].hdr = r.hdr]
                      /\ pc' = [pc EXCEPT ![p] = IF r.raisedAt = "" THEN "write"
                                                 ELSE "raised"]
                      /\ printed' = IF Warns(model)
                                    THEN [printed EXCEPT ![p] = Append(@, WARNING)]
                                    ELSE printed
    /\ UNCHANGED <<model, args, fs, fs0, wlog, lq>>

\* lines 216-218: fits.writeto(filename, data=zs, header=hdr), which raises
\* OSError when the file exists (overwrite is left False)
Write(p) ==
    /\ pc[p] = "write"
    /\ wlog' = Append(wlog, p)
    /\ IF Exists(loc[p].filename)
       THEN /\ loc' = [loc EXCEPT ![p].raisedAt = "write", ![p].exc = "OSError"]
            /\ pc' = [pc EXCEPT ![p] = "raised"]
            /\ UNCHANGED <<fs, printed>>
       ELSE /\ fs' = [fs EXCEPT !.files[loc[p].filename] =
                          [kind |-> "fits", data |-> loc[p].zs, header |-> loc[p].hdr]]
            /\ printed' = [printed EXCEPT ![p] = Append(@, "Written file to:")]
            /\ pc' = [pc EXCEPT ![p] = "done"]
            /\ UNCHANGED loc
    /\ UNCHANGED <<model, args, fs0, lq>>

Next == \E p \in Procs : Start(p) \/ IsFile(p) \/ Remove(p) \/ Compute(p) \/ Write(p)

----------------------------------------------------------------------------
(* Rational numbers n/d in lowest terms, d > 0 *)

RECURSIVE GCD(_, _)
GCD(a, b) == IF b = 0 THEN a ELSE GCD(b, a % b)

Rat(n, d) ==
    LET g == GCD(Abs(n), Abs(d))
        s == IF d < 0 THEN -1 ELSE 1
    IN  Num(0, s * (n \div g), s * (d \div g))

RAdd(x, y) == Rat(x.n * y.d + y.n * x.d, x.d * y.d)

\* numpy's x / y on floats: a zero divisor gives inf, -inf or NaN, no exception
RDivide(x, y) ==
    IF y.n # 0 THEN Rat(x.n * y.d, x.d * y.n)
    ELSE IF x.n = 0 THEN NaN
    ELSE [k |-> IF x.n > 0 THEN "inf" ELSE "-inf", w |-> 0, n |-> 0, d |-> 1]

RECURSIVE RSum(_)
RSum(s) == IF Len(s) = 0 THEN Rat(0, 1) ELSE RAdd(s[1], RSum(Tail(s)))

RECURSIVE Pow2(_)
Pow2(e) == IF e = 0 THEN 1 ELSE 2 * Pow2(e - 1)

----------------------------------------------------------------------------
(* LTEpop, lineEmissivity, lineOpacity, lineSource: lines 49-95.            *)
(* Levels are numbered from 1 (from 0 in the source).  Energies are held    *)
(* in units of kb*ln(2) kelvin and temperatures in kelvin, T dividing every *)
(* energy, so that np.exp(-energy/(kb*T)) is the rational 1/2^(energy/T).   *)
(* Emissivities and opacities are held in units of h/(4*pi).                *)

\* Boltzmann with the sign of the exponent lost
BoltzmannGrowing(energy, temperature) == Rat(Pow2(energy \div temperature), 1)

\* np.exp(-energy/(kb*temperature))
Boltzmann(energy, temperature) == Rat(1, Pow2(energy \div temperature))

\* lines 53-60
LTEpop(linedata, temperature) ==
    LET pop == [i \in 1..linedata.nlev |->
                   Rat(linedata.weight[i] * Boltzmann(linedata.energy[i], temperature).n,
                       Boltzmann(linedata.energy[i], temperature).d)]
    IN  [i \in 1..linedata.nlev |-> RDivide(pop[i], RSum(pop))]

\* lines 67-73
lineEmissivity(linedata, pop) ==
    [k \in 1..linedata.nrad |->
        linedata.frequency[k] * linedata.A[k] * pop[linedata.irad[k]]]

\* lineOpacity with the upper and the lower level exchanged
lineOpacitySwapped(linedata, pop) ==
    [k \in 1..linedata.nrad |->
        linedata.frequency[k]
          * (linedata.Ba[k] * pop[linedata.irad[k]] - linedata.Bs[k] * pop[linedata.jrad[k]])]

\* lines 80-86
lineOpacity(linedata, pop) ==
    [k \in 1..linedata.nrad |->
        linedata.frequency[k]
          * (linedata.Ba[k] * pop[linedata.jrad[k]] - linedata.Bs[k] * pop[linedata.irad[k]])]

\* line 93: the elementwise quotient of two numpy arrays
lineSource(linedata, pop) ==
    [k \in 1..linedata.nrad |->
        RDivide(Rat(lineEmissivity(linedata, pop)[k], 1),
                Rat(lineOpacity(linedata, pop)[k], 1))]

\* The inputs.  A LineData for LTEpop: up to MaxLev levels with positive
\* statistical weights.  A LineData for the line functions: two levels and
\* up to MaxRad transitions between any of them.
Weights  == {1, 2}
Energies == {0, 2, 4}
Temps    == {1, 2}
PopVals  == {0, 1, 2}
Coeffs   == {1, 2}

Transitions == [irad : 1..2, jrad : 1..2, Ba : Coeffs, Bs : Coeffs]

LineData(weight, energy, tr) ==
    [nlev      |-> Len(weight),
     weight    |-> weight,
     energy    |-> energy,
     nrad      |-> Len(tr),
     irad      |-> [k \in 1..Len(tr) |-> tr[k].irad],
     jrad      |-> [k \in 1..Len(tr) |-> tr[k].jrad],
     frequency |-> [k \in 1..Len(tr) |-> k + 1],
     A         |-> [k \in 1..Len(tr) |-> k],
     Ba        |-> [k \in 1..Len(tr) |-> tr[k].Ba],
     Bs        |-> [k \in 1..Len(tr) |-> tr[k].Bs]]

LevelInputs ==
    UNION {{[op |-> "input",
             ld |-> LineData(w, e, <<[irad |-> 1, jrad |-> 1, Ba |-> 1, Bs |-> 1]>>),
             pop |-> [i \in 1..n |-> 1], T |-> t, out |-> <<>>] :
               w \in [1..n -> Weights], e \in [1..n -> Energies], t \in Temps} :
           n \in 1..MaxLev}

LineInputs ==
    {[op |-> "input", ld |-> LineData(<<1, 3>>, <<0, 2>>, tr), pop |-> pop, T |-> 1,
      out |-> <<>>] :
        tr \in UNION {[1..n -> Transitions] : n \in 1..MaxRad},
        pop \in [1..2 -> PopVals]}

CallLTEpop ==
    /\ lq.op = "input"
    /\ lq' = [lq EXCEPT !.op = "LTEpop", !.out = LTEpop(lq.ld, lq.T)]
    /\ UNCHANGED <<model, args, fs, fs0, pc, loc, printed, wlog>>

CallLineEmissivity ==
    /\ lq.op = "input"
    /\ lq' = [lq EXCEPT !.op = "lineEmissivity", !.out = lineEmissivity(lq.ld, lq.pop)]
    /\ UNCHANGED <<model, args, fs, fs0, pc, loc, printed, wlog>>

CallLineOpacity ==
    /\ lq.op = "input"
    /\ lq' = [lq EXCEPT !.op = "lineOpacity", !.out = lineOpacity(lq.ld, lq.pop)]
    /\ UNCHANGED <<model, args, fs, fs0, pc, loc, printed, wlog>>

CallLineSource ==
    /\ lq.op = "input"
    /\ lq' = [lq EXCEPT !.op = "lineSource", !.out = lineSource(lq.ld, lq.pop)]
    /\ UNCHANGED <<model, args, fs, fs0, pc, loc, printed, wlog>>

NextLine == CallLTEpop \/ CallLineEmissivity \/ CallLineOpacity \/ CallLineSource

----------------------------------------------------------------------------
(* Initial states *)

\* the file system before the call: the image directory may exist, and an
\* earlier file may lie at the target paths (at the default path only
\* inside an existing image directory)
FileSystems ==
    {[dir   |-> d,
      files |-> [q \in Paths |-> IF old /\ (q = UserPath \/ d) THEN OldFile ELSE NoFile]] :
        d \in BOOLEAN, old \in BOOLEAN}

NoLq == [op |-> "none", ld |-> <<>>, pop |-> <<>>, T |-> 0, out |-> <<>>]

\* one call of save_fits
Init ==
    /\ model \in Models
    /\ \E a \in ArgSets : args = [p \in Procs |-> IF p = 1 THEN a ELSE NoCall]
    /\ fs \in FileSystems
    /\ fs0 = fs
    /\ pc = [p \in Procs |-> IF p = 1 THEN "start" ELSE "idle"]
    /\ loc = [p \in Procs |-> NoLoc]
    /\ printed = [p \in Procs |-> <<>>]
    /\ wlog = <<>>
    /\ lq = NoLq

Spec == Init /\ [][Next]_vars

\* two calls of save_fits on one model and one file name, their steps interleaved
ConcArgs == {a \in ArgSets : a.filename = UserPath /\ a.image_nr = -1 /\ a.zoom = 1}

InitConc ==
    /\ model \in {m \in Models : Len(m.images) >= 1 /\ m.nu = <<4, 3>>}
    /\ args \in [Procs -> ConcArgs]
    /\ fs \in {f \in FileSystems : ~f.dir}
    /\ fs0 = fs
    /\ pc = [p \in Procs |-> "start"]
    /\ loc = [p \in Procs |-> NoLoc]
    /\ printed = [p \in Procs |-> <<>>]
    /\ wlog = <<>>
    /\ lq = NoLq

SpecConc == InitConc /\ [][Next]_vars

\* the radiative quantities, each applied to an input
InitLine ==
    /\ lq \in LevelInputs \cup LineInputs
    /\ model = Model(0, <<<<0, 0>>, <<0, 0>>>>, <<4>>)
    /\ args = [p \in Procs |-> NoCall]
    /\ fs = [dir |-> FALSE, files |-> [q \in Paths |-> NoFile]]
    /\ fs0 = fs
    /\ pc = [p \in Procs |-> "idle"]
    /\ loc = [p \in Procs |-> NoLoc]
    /\ printed = [p \in Procs |-> <<>>]
    /\ wlog = <<>>

SpecLine == InitLine /\ [][NextLine]_vars

----------------------------------------------------------------------------
(* Properties of save_fits *)

Called(p) == pc[p] # "idle"

\* the path call p writes to
Target(p) == IF args[p].filename = "" THEN DefaultPath ELSE args[p].filename

\* C1: a call on a model without images returns normally and leaves the file
\* system as it was: no file appears, no image directory is made, and a file
\* at the target path stays with its contents.
C1_EmptyIsNoOp ==
    \A p \in Procs :
        (Called(p) /\ Len(model.images) = 0) =>
            /\ pc[p] \in {"start", "returned"}
            /\ loc[p].exc = ""
            /\ fs = fs0

C1_Witness ==
    /\ pc[1] = "returned"
    /\ Len(model.images) = 0
    /\ args[1].filename = ""
    /\ ~fs0.dir
    /\ fs0.files[UserPath] = OldFile
    /\ fs = fs0

\* C2: a call with an image whose target path already holds a file does not
\* fail on that file, and once it has completed the target path holds the
\* cube and header just written and nothing of the old file.
C2_Overwrites ==
    \A p \in Procs :
        (Called(p) /\ Len(model.images) >= 1 /\ fs0.files[Target(p)] = OldFile) =>
            /\ loc[p].exc \notin {"FileNotFoundError", "OSError"}
            /\ pc[p] = "done" =>
                 /\ fs.files[Target(p)].kind = "fits"
                 /\ fs.files[Target(p)].data = loc[p].zs
                 /\ fs.files[Target(p)].header = loc[p].hdr
                 /\ Len(loc[p].zs) = model.nfreqs
                 /\ loc[p].hdr.IM_UNIT = IM_UNIT

C2_Witness ==
    /\ pc[1] = "done"
    /\ fs0.files[Target(1)] = OldFile
    /\ fs.files[Target(1)].kind = "fits"
    /\ fs.files[Target(1)].data = loc[1].zs

\* C10: the target file is removed after the guard on the images and before
\* anything is read or computed, so a call that fails between the removal
\* and the write (extraction, spacing check, interpolation, header) leaves
\* no file at the target path, even if one was there before.
C10_RemovedBeforeWork ==
    \A p \in Procs :
        /\ pc[p] \in {"isfile", "remove"} =>
             /\ Len(model.images) >= 1
             /\ loc[p].grid = NoGrid /\ loc[p].dfreq = Unset
             /\ loc[p].zs = <<>> /\ loc[p].hdr = NoHdr
             /\ \A i \in 1..Len(printed[p]) : printed[p][i] # WARNING
        /\ pc[p] \in {"extract", "write"} => ~Exists(Target(p))
        /\ (pc[p] = "raised"
              /\ loc[p].raisedAt \in {"extract", "spacing", "interp", "header"}) =>
             ~Exists(Target(p))

C10_Witness ==
    /\ pc[1] = "raised"
    /\ loc[1].raisedAt = "interp"
    /\ fs0.files[Target(1)] = OldFile
    /\ ~Exists(Target(1))

\* the image call p extracts (for a valid image_nr)
Img(p) == model.images[ImageIndex(Len(model.images), args[p].image_nr)]

ValidImage(p) ==
    /\ Len(model.images) >= 1
    /\ ImageIndex(Len(model.images), args[p].image_nr) # 0

\* C3: two calls on the same file name with their steps interleaved both
\* complete without an error from the file system, and the file left at the
\* target path is the cube of the call that executed its write last.
C3_LastWriterWins ==
    /\ \A p \in Procs : loc[p].exc \notin {"FileNotFoundError", "OSError"}
    /\ (\A p \in Procs : pc[p] = "done") =>
          /\ fs.files[UserPath].kind = "fits"
          /\ fs.files[UserPath].data = loc[wlog[Len(wlog)]].zs
          /\ fs.files[UserPath].header = loc[wlog[Len(wlog)]].hdr

\* the differences of a frequency array are non-uniform beyond the relative
\* tolerance 1e-9: |2*(max-min)/(max+min)| > 1e-9
NonUniform(nu) ==
    LET mx == SeqMax(Diff(nu))
        mn == SeqMin(Diff(nu))
    IN  IF mx + mn = 0 THEN mx # mn
        ELSE 2 * Abs(mx - mn) > Abs(mx + mn) \div 1000000000

\* the mean of the differences of nu, (last - first)/(bins - 1), as a mixed number
MeanSpacing(nu) ==
    Num((nu[Len(nu)] - nu[1]) \div (Len(nu) - 1),
        (nu[Len(nu)] - nu[1]) % (Len(nu) - 1),
        Len(nu) - 1)

Warned(p) == \E i \in 1..Len(printed[p]) : printed[p][i] = WARNING

\* C4: for a frequency array of at least two bins, a call that reaches the
\* spacing check stores DFREQ as absent and prints the warning exactly when
\* the differences are non-uniform beyond the tolerance, and stores their
\* mean otherwise.  The check itself never stops the export: the call goes on
\* to write the file, whose header carries that DFREQ, and raises only where
\* the shape of the grid makes the interpolation or the header fail.
C4_SpacingRule ==
    \A p \in Procs :
        (pc[p] \in {"write", "done", "raised"} /\ Len(model.nu) >= 2
           /\ loc[p].raisedAt \notin {"remove", "extract"}) =>
            /\ loc[p].raisedAt # "spacing"
            /\ NonUniform(model.nu) => (loc[p].dfreq = None /\ Warned(p))
            /\ ~NonUniform(model.nu) =>
                 (loc[p].dfreq = MeanSpacing(model.nu) /\ ~Warned(p))
            /\ pc[p] = "done" =>
                 /\ fs.files[Target(p)].kind = "fits"
                 /\ fs.files[Target(p)].header.DFREQ = loc[p].dfreq
            /\ pc[p] = "raised" =>
                 (args[p].npix_x # args[p].npix_y \/ args[p].npix_x = 1)

C4_Witness ==
    /\ pc[1] = "done"
    /\ Len(model.nu) = 3
    /\ NonUniform(model.nu)
    /\ fs.files[Target(1)].header.DFREQ = None
    /\ Warned(1)

C4_WitnessRegular ==
    /\ pc[1] = "done"
    /\ Len(model.nu) = 3
    /\ model.nu[2] - model.nu[1] # model.nu[3] - model.nu[2]
    /\ fs.files[Target(1)].header.DFREQ = MeanSpacing(model.nu)
    /\ ~Warned(1)

\* C5: for every number of frequency bins F >= 1 and every grid size
\* npix_x >= 1, npix_y >= 1, a call with an image completes and writes a cube
\* of shape (F, npix_x, npix_y) under a header with NAXIS1 = F,
\* NAXIS2 = npix_x, NAXIS3 = npix_y.
C5_AnyShapeCompletes ==
    \A p \in Procs :
        (Called(p) /\ ValidImage(p)) =>
            /\ pc[p] # "raised"
            /\ pc[p] = "done" =>
                 LET file == fs.files[Target(p)]
                 IN  /\ Len(file.data) = model.nfreqs
                     /\ \A f \in 1..Len(file.data) :
                          /\ Len(file.data[f]) = args[p].npix_x
                          /\ \A ix \in 1..Len(file.data[f]) :
                               Len(file.data[f][ix]) = args[p].npix_y
                     /\ file.header.NAXIS1 = model.nfreqs
                     /\ file.header.NAXIS2 = args[p].npix_x
                     /\ file.header.NAXIS3 = args[p].npix_y

\* C6: in a completed export the cube is ordered (frequency, x, y): entry
\* [f][ix][iy] is the intensity in bin f of a sample at the least distance
\* from the grid point (xs[ix], ys[iy]).
C6_CubeIsFreqXY ==
    \A p \in Procs :
        pc[p] = "done" =>
            LET file == fs.files[Target(p)]
                g    == loc[p].grid
            IN  \A f \in 1..Len(file.data) :
                  \A ix \in 1..Len(g.xs) : \A iy \in 1..Len(g.ys) :
                    \E m \in Nearest(Img(p), g.xs[ix], g.xd, g.ys[iy], g.yd) :
                        file.data[f][ix][iy] = Img(p).I[m][f]

\* an axis of the grid, nums/den, is the crop of the coordinates' bounding box
\* about its midpoint: same midpoint, extent divided by zoom, inside the box
CentredCrop(coords, nums, den, zoom) ==
    LET mn == SeqMin(coords)
        mx == SeqMax(coords)
        lo == nums[1]
        hi == nums[Len(nums)]
    IN  /\ lo + hi = (mn + mx) * den
        /\ (hi - lo) * zoom = (mx - mn) * den
        /\ mn * den <= lo
        /\ hi <= mx * den

\* C9: for any zoom >= 1 the box spanned by the output grid on each axis has
\* the midpoint of the raw bounding box and its extent divided by zoom, and
\* so lies inside the raw bounding box.
C9_BoxIsCentredCrop ==
    \A p \in Procs :
        (pc[p] \in {"write", "done"} /\ args[p].zoom >= 1) =>
            /\ CentredCrop(Img(p).ImX, loc[p].grid.xs, loc[p].grid.xd, args[p].zoom)
            /\ CentredCrop(Img(p).ImY, loc[p].grid.ys, loc[p].grid.yd, args[p].zoom)

----------------------------------------------------------------------------
(* Properties of the radiative quantities *)

Undefined(v) == v.k \in {"inf", "-inf", "nan"}

\* C7: lineEmissivity and lineOpacity return nrad values each; lineSource[k]
\* is emissivity[k]/opacity[k], and is infinite or NaN exactly for the
\* transitions k whose opacity
\* h*frequency[k]/(4*pi)*(Ba[k]*pop[jrad[k]] - Bs[k]*pop[irad[k]]) is zero.
C7_SourceUndefinedIffNoOpacity ==
    LET ld == lq.ld
        eta(k) == ld.frequency[k] * ld.A[k] * lq.pop[ld.irad[k]]
        chi(k) == ld.frequency[k]
                    * (ld.Ba[k] * lq.pop[ld.jrad[k]] - ld.Bs[k] * lq.pop[ld.irad[k]])
    IN  /\ lq.op \in {"lineEmissivity", "lineOpacity", "lineSource"} =>
             Len(lq.out) = ld.nrad
        /\ lq.op = "lineEmissivity" => \A k \in 1..ld.nrad : lq.out[k] = eta(k)
        /\ lq.op = "lineOpacity" => \A k \in 1..ld.nrad : lq.out[k] = chi(k)
        /\ lq.op = "lineSource" =>
             \A k \in 1..ld.nrad :
                /\ Undefined(lq.out[k]) <=> chi(k) = 0
                /\ chi(k) # 0 =>
                     (lq.out[k].k = "num" /\ lq.out[k].n * chi(k) = eta(k) * lq.out[k].d)

C7_Witness ==
    /\ lq.op = "lineSource"
    /\ lq.ld.nrad = 2
    /\ lq.out[1].k = "inf"
    /\ lq.out[2].k = "num"
    /\ lq.out[2].n < 0

\* C8: for T > 0, LTEpop returns nlev values, none negative, that sum to 1,
\* entry i being weight[i]*exp(-energy[i]/(kb*T)) over the sum of these terms
\* (with exp(-energy/(kb*T)) = 1/2^(energy/T) in the units of the model).
C8_LTEpopIsDistribution ==
    lq.op = "LTEpop" =>
        LET ld == lq.ld
            e(i) == Pow2(ld.energy[i] \div lq.T)
        IN  /\ Len(lq.out) = ld.nlev
            /\ \A i \in 1..ld.nlev :
                  lq.out[i].k = "num" /\ lq.out[i].n >= 0 /\ lq.out[i].d > 0
            /\ RSum(lq.out) = Rat(1, 1)
            /\ \A i \in 1..ld.nlev : \A j \in 1..ld.nlev :
                  lq.out[i].n * lq.out[j].d * ld.weight[j] * e(i)
                    = lq.out[j].n * lq.out[i].d * ld.weight[i] * e(j)

C8_Witness ==
    /\ lq.op = "LTEpop"
    /\ lq.ld.nlev = 2
    /\ lq.ld.weight = <<1, 2>>
    /\ lq.ld.energy = <<0, 4>>
    /\ lq.T = 2
    /\ lq.out = <<Rat(2, 3), Rat(1, 3)>>

====
